---- MODULE Spec2Model ----
(***************************************************************************)
(* qdl: the device acquisition and flash orchestration layer of qdl.c.     *)
(* main() classifies and loads the descriptor files, tty_open() locates    *)
(* the EDL tty by scanning /sys/class/tty (find_qdl_tty, readat), opens    *)
(* and configures it, main() runs the two protocol engines and restores    *)
(* the line configuration.  Strings are sequences of one-character         *)
(* strings so that the fixed-size buffers of readat are modelled by what   *)
(* they do.                                                                *)
(***************************************************************************)
EXTENDS Integers, Sequences, FiniteSets, TLC

(* ---------------------------------------------------------------- bounds *)
\* longest argument vector after argv[0]
MaxArgs == 3
\* most entries readdir() yields in one scan of /sys/class/tty
MaxEntries == 2
\* most calls of find_qdl_tty in one run (the retry loop itself is unbounded)
MaxScans == 2

(* ------------------------------------------------------ program constants *)
QDL_FILE_UNKNOWN == 0
QDL_FILE_PATCH == 1
QDL_FILE_PROGRAM == 2
QDL_FILE_CONTENTS == 3
EINVAL == 22
ENOENT == 2
\* sizeof(vid), sizeof(pid)
VidLen == 5
\* strncmp(de->d_name, "ttyUSB", 6)
PrefixLen == 6

(* --------------------------------------------------------------- strings *)
Min(a, b) == IF a < b THEN a ELSE b
Take(s, n) == SubSeq(s, 1, Min(n, Len(s)))

NL == "\n"
S_ttyUSB == <<"t", "t", "y", "U", "S", "B">>
S_dev == <<"/", "d", "e", "v", "/">>
S_05c6 == <<"0", "5", "c", "6">>
S_9008 == <<"9", "0", "0", "8">>

\* strcspn(buf, "\n"): the length of the prefix of buf holding no newline
strcspn(buf) ==
    IF \E k \in 1..Len(buf) : buf[k] = NL
    THEN (CHOOSE k \in 1..Len(buf) :
             buf[k] = NL /\ \A j \in 1..(k - 1) : buf[j] # NL) - 1
    ELSE Len(buf)

\* strncmp(a, b, n) == 0
strncmp_eq(a, b, n) == Take(a, n) = Take(b, n)

\* strcmp(a, b) == 0
strcmp_eq(a, b) == a = b

(* ------------------------------------------------------------ detect_type *)
\* What xmlReadFile and xmlDocGetRootElement yield for each argument string:
\* the root element's name, or "noparse" when the file is missing or is not
\* a well-formed document.
XmlRoot(xml_file) ==
    CASE xml_file = "patch.xml"    -> "patches"
      [] xml_file = "program.xml"  -> "data"
      [] xml_file = "contents.xml" -> "contents"
      [] xml_file = "other.xml"    -> "configuration"
      [] OTHER                     -> "noparse"

\* detect_type without the "contents" branch
detect_type_nocontents(xml_file) ==
    LET root == XmlRoot(xml_file) IN
    IF root = "noparse" THEN -EINVAL
    ELSE IF root = "patches" THEN QDL_FILE_PATCH
    ELSE IF root = "data" THEN QDL_FILE_PROGRAM
    ELSE QDL_FILE_UNKNOWN

detect_type(xml_file) ==
    LET root == XmlRoot(xml_file) IN
    IF root = "noparse" THEN -EINVAL
    ELSE IF root = "patches" THEN QDL_FILE_PATCH
    ELSE IF root = "data" THEN QDL_FILE_PROGRAM
    ELSE IF root = "contents" THEN QDL_FILE_CONTENTS
    ELSE QDL_FILE_UNKNOWN

(* ----------------------------------------------------------------- readat *)
\* A sysfs attribute file: whether openat succeeds, whether read succeeds,
\* and the bytes a read returns.
File(exists, readable, data) ==
    [exists |-> exists, readable |-> readable, data |-> data]

\* readat(dir, name, buf, len): ret < 0 on failure with buf untouched, else
\* 0 with buf holding at most len - 1 bytes, cut at the first newline.
readat(file, buf, len) ==
    IF ~file.exists THEN [ret |-> -1, buf |-> buf]
    ELSE IF ~file.readable THEN [ret |-> -EINVAL, buf |-> buf]
    ELSE LET got == Take(file.data, len - 1)
         IN  [ret |-> 0, buf |-> Take(got, strcspn(got))]

(* ----------------------------------------------------------- find_qdl_tty *)
\* ScanEntry with an entry that cannot be opened or read resetting found
ScanEntry_clear(acc, de) ==
    IF ~strncmp_eq(de.d_name, S_ttyUSB, PrefixLen) THEN acc
    ELSE IF ~de.dirOk THEN [acc EXCEPT !.found = -ENOENT]
    ELSE LET rv == readat(de.idVendor, acc.vid, VidLen)
             a1 == [acc EXCEPT !.vid = rv.buf]
         IN  IF rv.ret < 0 THEN [a1 EXCEPT !.found = -ENOENT]
             ELSE LET rp == readat(de.idProduct, a1.pid, VidLen)
                      a2 == [a1 EXCEPT !.pid = rp.buf]
                  IN  IF rp.ret < 0 THEN [a2 EXCEPT !.found = -ENOENT]
                      ELSE IF ~strcmp_eq(a2.vid, S_05c6) \/ ~strcmp_eq(a2.pid, S_9008)
                           THEN a2
                           ELSE [a2 EXCEPT !.dev_name = S_dev \o de.d_name,
                                           !.found = 0]

\* One pass of the while loop body over directory entry de, from the locals
\* acc = [found, dev_name, vid, pid].
ScanEntry(acc, de) ==
    IF ~strncmp_eq(de.d_name, S_ttyUSB, PrefixLen) THEN acc
    ELSE IF ~de.dirOk THEN acc
    ELSE LET rv == readat(de.idVendor, acc.vid, VidLen)
             a1 == [acc EXCEPT !.vid = rv.buf]
         IN  IF rv.ret < 0 THEN a1
             ELSE LET rp == readat(de.idProduct, a1.pid, VidLen)
                      a2 == [a1 EXCEPT !.pid = rp.buf]
                  IN  IF rp.ret < 0 THEN a2
                      ELSE IF ~strcmp_eq(a2.vid, S_05c6) \/ ~strcmp_eq(a2.pid, S_9008)
                           THEN a2
                           ELSE [a2 EXCEPT !.dev_name = S_dev \o de.d_name,
                                           !.found = 0]

\* ScanFrom leaving the loop at the first match
RECURSIVE ScanFrom_break(_, _, _)
ScanFrom_break(acc, dir, k) ==
    IF k > Len(dir) \/ acc.found = 0 THEN acc
    ELSE ScanFrom_break(ScanEntry(acc, dir[k]), dir, k + 1)

RECURSIVE ScanFrom(_, _, _)
ScanFrom(acc, dir, k) ==
    IF k > Len(dir) THEN acc
    ELSE ScanFrom(ScanEntry(acc, dir[k]), dir, k + 1)

\* find_qdl_tty(dev_name, dev_name_len) over the entries readdir yields, in
\* order; dev_name is the caller's buffer, left as it was when nothing matches.
find_qdl_tty(dir, dev_name) ==
    LET r == ScanFrom([found |-> -ENOENT, dev_name |-> dev_name,
                       vid |-> <<>>, pid |-> <<>>], dir, 1)
    IN  [found |-> r.found, dev_name |-> r.dev_name]

(* ---------------------------------------------------------------- termios *)
\* struct termios, each flag word as the set of flags it holds
Termios(c, i, o, l) == [c_cflag |-> c, c_iflag |-> i, c_oflag |-> o, c_lflag |-> l]

\* memset(&tios, 0, ...) followed by the three assignments of tty_open
FixedTios ==
    Termios({"B115200", "CRTSCTS", "CS8", "CLOCAL", "CREAD"}, {"IGNPAR"}, {}, {})

\* line configurations a tty can be found in
LineCfgs ==
    { Termios({"B9600", "CS8", "CREAD"}, {"ICRNL", "IXON"}, {"OPOST"}, {"ICANON", "ECHO"}),
      Termios({"B115200", "CS8", "CREAD", "CLOCAL"}, {}, {}, {}),
      FixedTios }

\* the value of main's tios before tcgetattr has filled it
NoTios == Termios({"uninitialized"}, {}, {}, {})

(* ------------------------------------------------------------ environment *)
ArgStrings ==
    {"--debug", "prog.mbn", "patch.xml", "program.xml", "contents.xml", "other.xml"}

RECURSIVE SeqsUpTo(_, _)
SeqsUpTo(S, n) ==
    IF n = 0 THEN {<<>>}
    ELSE LET shorter == SeqsUpTo(S, n - 1)
         IN  shorter \cup {Append(s, x) : s \in {t \in shorter : Len(t) = n - 1}, x \in S}

ArgVectors == SeqsUpTo(ArgStrings, MaxArgs)

F_05c6 == File(TRUE, TRUE, S_05c6 \o <<NL>>)
F_9008 == File(TRUE, TRUE, S_9008 \o <<NL>>)

\* what the sysfs node of one tty can look like
Attrs ==
    { [dirOk |-> TRUE,  idVendor |-> F_05c6, idProduct |-> F_9008],
      [dirOk |-> TRUE,  idVendor |-> File(TRUE, TRUE, S_05c6 \o <<"0", NL>>),
                        idProduct |-> F_9008],
      [dirOk |-> TRUE,  idVendor |-> F_05c6,
                        idProduct |-> File(TRUE, TRUE, <<"9", "0", "0", NL>>)],
      [dirOk |-> TRUE,  idVendor |-> File(TRUE, TRUE, <<"0", "4", "0", "3", NL>>),
                        idProduct |-> F_9008],
      [dirOk |-> FALSE, idVendor |-> F_05c6, idProduct |-> F_9008],
      [dirOk |-> TRUE,  idVendor |-> File(FALSE, FALSE, <<>>), idProduct |-> F_9008],
      [dirOk |-> TRUE,  idVendor |-> F_05c6, idProduct |-> File(TRUE, FALSE, <<>>)] }

N_ttyUSB0 == S_ttyUSB \o <<"0">>
N_ttyUSB1 == S_ttyUSB \o <<"1">>
N_ttyS0 == <<"t", "t", "y", "S", "0">>

Entry(n, a) ==
    [d_name |-> n, dirOk |-> a.dirOk, idVendor |-> a.idVendor, idProduct |-> a.idProduct]

\* two USB serial ports in every condition, and an on-board port whose
\* attribute path happens to resolve to the expected identifiers
Entries ==
    { Entry(n, a) : n \in {N_ttyUSB0, N_ttyUSB1}, a \in Attrs }
    \cup { Entry(N_ttyS0, [dirOk |-> TRUE, idVendor |-> F_05c6, idProduct |-> F_9008]) }

\* directory listings: entries in readdir order, no name twice
Listings(S, n) ==
    { d \in SeqsUpTo(S, n) :
        \A j, k \in 1..Len(d) : j # k => d[j].d_name # d[k].d_name }

AllListings == Listings(Entries, MaxEntries)

\* the listings the whole-pipeline specification draws from: at most one tty,
\* either the EDL device or a foreign one
FewListings ==
    Listings({ e \in Entries : /\ e.d_name = N_ttyUSB0
                               /\ e.dirOk
                               /\ e.idProduct = F_9008
                               /\ e.idVendor.exists
                               /\ Len(e.idVendor.data) = VidLen }, 1)

(* ------------------------------------------------------------------ state *)
VARIABLES
    argv0,       \* the arguments the process was started with, argv[0] left out
    argc,        \* main: argc
    argv,        \* main: argv[1..argc-1], a sequence indexed from 1
    qdl_debug,   \* the global flag
    prog_mbn,    \* main: prog_mbn ("" until assigned)
    i,           \* main: loop index over argv
    type,        \* main: detect_type's result for argv[i]
    pc,          \* where the process is
    dir,         \* find_qdl_tty: the entries the latest scan read
    found,       \* tty_open: ret of the latest find_qdl_tty
    path,        \* tty_open: path buffer
    scans,       \* number of find_qdl_tty calls so far
    fd,          \* the device handle: "none", "open", "closed"
    line,        \* the opened device's line configuration
    line0,       \* the device's line configuration when it was opened
    tios,        \* main: tios, the saved configuration
    log,         \* the calls made so far, in order
    exitStatus   \* the process exit status, -1 while running

vars == <<argv0, argc, argv, qdl_debug, prog_mbn, i, type, pc, dir, found, path, scans,
          fd, line, line0, tios, log, exitStatus>>

Ev(op, file, ret) == [op |-> op, file |-> file, ret |-> ret]

\* exit(code), also the return from main
Exit(code) ==
    /\ pc' = "exited"
    /\ exitStatus' = code

Init ==
    /\ argv0 \in ArgVectors
    /\ argv = argv0
    /\ argc = Len(argv) + 1
    /\ qdl_debug = FALSE
    /\ prog_mbn = ""
    /\ i = 0
    /\ type = 0
    /\ pc = "main"
    /\ dir = <<>>
    /\ found = 0
    /\ path = <<>>
    /\ scans = 0
    /\ fd = "none"
    /\ line = NoTios
    /\ line0 = NoTios
    /\ tios = NoTios
    /\ log = <<>>
    /\ exitStatus = -1

(* ------------------------------------------------------------------- main *)
\* main_args with the argument count checked against 2 instead of 3
main_args_short ==
    /\ pc = "main"
    /\ LET debug == argc >= 2 /\ argv[1] = "--debug"
           av == IF debug THEN Tail(argv) ELSE argv
           ac == IF debug THEN argc - 1 ELSE argc
       IN  /\ qdl_debug' = debug
           /\ argv' = av
           /\ argc' = ac
           /\ IF ac < 2
              THEN /\ log' = Append(log, Ev("usage", 0, 1))
                   /\ Exit(1)
                   /\ UNCHANGED <<prog_mbn, i>>
              ELSE /\ prog_mbn' = av[1]
                   /\ i' = 2
                   /\ pc' = IF 2 < ac THEN "detect" ELSE "retry"
                   /\ UNCHANGED <<log, exitStatus>>
    /\ UNCHANGED <<argv0, type, dir, found, path, scans, fd, line, line0, tios>>

\* main, lines 214-225: strip a leading --debug, check the argument count,
\* take the firmware image path.
main_args ==
    /\ pc = "main"
    /\ LET debug == argc >= 2 /\ argv[1] = "--debug"
           av == IF debug THEN Tail(argv) ELSE argv
           ac == IF debug THEN argc - 1 ELSE argc
       IN  /\ qdl_debug' = debug
           /\ argv' = av
           /\ argc' = ac
           /\ IF ac < 3
              THEN /\ log' = Append(log, Ev("usage", 0, 1))
                   /\ Exit(1)
                   /\ UNCHANGED <<prog_mbn, i>>
              ELSE /\ prog_mbn' = av[1]
                   /\ i' = 2
                   /\ pc' = IF 2 < ac THEN "detect" ELSE "retry"
                   /\ UNCHANGED <<log, exitStatus>>
    /\ UNCHANGED <<argv0, type, dir, found, path, scans, fd, line, line0, tios>>

\* main, lines 228-230: classify argv[i]; errx "failed to detect file type"
main_detect_type ==
    /\ pc = "detect"
    /\ LET t == detect_type(argv[i])
       IN  /\ type' = t
           /\ IF t < 0 \/ t = QDL_FILE_UNKNOWN
              THEN /\ log' = log \o <<Ev("detect_type", i, t), Ev("errx_detect", i, 1)>>
                   /\ Exit(1)
              ELSE /\ log' = Append(log, Ev("detect_type", i, t))
                   /\ pc' = "switch"
                   /\ UNCHANGED exitStatus
    /\ UNCHANGED <<argv0, argc, argv, qdl_debug, prog_mbn, i, dir, found, path, scans,
                   fd, line, line0, tios>>

\* LoaderFor with the two loaders exchanged
LoaderFor_swapped(t) ==
    IF t = QDL_FILE_PATCH THEN "program_load"
    ELSE IF t = QDL_FILE_PROGRAM THEN "patch_load"
    ELSE ""

\* the loader main's switch selects for a type, "" for the default branch
LoaderFor(t) ==
    IF t = QDL_FILE_PATCH THEN "patch_load"
    ELSE IF t = QDL_FILE_PROGRAM THEN "program_load"
    ELSE ""

\* main_switch with a loader failure reported but not fatal
main_switch_continue ==
    /\ pc = "switch"
    /\ IF LoaderFor(type) = ""
       THEN /\ log' = Append(log, Ev("errx_unsupported", i, 1))
            /\ Exit(1)
            /\ UNCHANGED i
       ELSE \E ret \in {0, -1} :
              /\ log' = Append(log, Ev(LoaderFor(type), i, ret))
              /\ i' = i + 1
              /\ pc' = IF i + 1 < argc THEN "detect" ELSE "retry"
              /\ UNCHANGED exitStatus
    /\ UNCHANGED <<argv0, argc, argv, qdl_debug, prog_mbn, type, dir, found, path,
                   scans, fd, line, line0, tios>>

\* main, lines 232-247: the switch on type, the loader call, the loop step;
\* the default branch is errx "type not yet supported"
main_switch ==
    /\ pc = "switch"
    /\ IF LoaderFor(type) = ""
       THEN /\ log' = Append(log, Ev("errx_unsupported", i, 1))
            /\ Exit(1)
            /\ UNCHANGED i
       ELSE \E ret \in {0, -1} :
              /\ log' = Append(log, Ev(LoaderFor(type), i, ret))
              /\ IF ret < 0
                 THEN Exit(1) /\ UNCHANGED i
                 ELSE /\ i' = i + 1
                      /\ pc' = IF i + 1 < argc THEN "detect" ELSE "retry"
                      /\ UNCHANGED exitStatus
    /\ UNCHANGED <<argv0, argc, argv, qdl_debug, prog_mbn, type, dir, found, path, scans,
                   fd, line, line0, tios>>

(* --------------------------------------------------------------- tty_open *)
\* tty_open_retry taking a directory that cannot be opened for an empty one
tty_open_retry_soft(L) ==
    /\ pc = "retry"
    /\ scans < MaxScans
    /\ scans' = scans + 1
    /\ \/ /\ log' = Append(log, Ev("opendir", 0, -1))
          /\ found' = -ENOENT
          /\ pc' = "wait"
          /\ UNCHANGED <<dir, path, exitStatus>>
       \/ \E d \in L :
            LET r == find_qdl_tty(d, path)
            IN  /\ log' = Append(log, Ev("opendir", 0, 0))
                /\ dir' = d
                /\ found' = r.found
                /\ path' = r.dev_name
                /\ pc' = IF r.found < 0 THEN "wait" ELSE "open"
                /\ UNCHANGED exitStatus
    /\ UNCHANGED <<argv0, argc, argv, qdl_debug, prog_mbn, i, type, fd, line, line0, tios>>

\* tty_open, lines 172-174 with find_qdl_tty, lines 124-161: one scan of
\* /sys/class/tty, whose listing is drawn from L.
tty_open_retry(L) ==
    /\ pc = "retry"
    /\ scans < MaxScans
    /\ scans' = scans + 1
    /\ \/ \* open("/sys/class/tty") or fdopendir fails: err(1, ...)
          /\ log' = Append(log, Ev("opendir", 0, -1))
          /\ Exit(1)
          /\ UNCHANGED <<dir, found, path>>
       \/ \E d \in L :
            LET r == find_qdl_tty(d, path)
            IN  /\ log' = Append(log, Ev("opendir", 0, 0))
                /\ dir' = d
                /\ found' = r.found
                /\ path' = r.dev_name
                /\ pc' = IF r.found < 0 THEN "wait" ELSE "open"
                /\ UNCHANGED exitStatus
    /\ UNCHANGED <<argv0, argc, argv, qdl_debug, prog_mbn, i, type, fd, line, line0, tios>>

\* tty_open_wait giving up instead of going back to retry
tty_open_wait_giveup ==
    /\ pc = "wait"
    /\ log' = Append(log, Ev("notice", 0, 0))
    /\ Exit(1)
    /\ UNCHANGED <<argv0, argc, argv, qdl_debug, prog_mbn, i, type, dir, found, path,
                   scans, fd, line, line0, tios>>

\* tty_open, lines 175-178: the wait notice, sleep(1), goto retry
tty_open_wait ==
    /\ pc = "wait"
    /\ log' = Append(log, Ev("notice", 0, 0))
    /\ pc' = "retry"
    /\ UNCHANGED <<argv0, argc, argv, qdl_debug, prog_mbn, i, type, dir, found, path,
                   scans, fd, line, line0, tios, exitStatus>>

\* tty_open_open going back to the scan when the open fails
tty_open_open_again ==
    /\ pc = "open"
    /\ \/ /\ log' = Append(log, Ev("open", 0, -1))
          /\ pc' = "retry"
          /\ UNCHANGED <<fd, line, line0, exitStatus>>
       \/ \E c \in LineCfgs :
            /\ log' = Append(log, Ev("open", 0, 0))
            /\ fd' = "open"
            /\ line' = c
            /\ line0' = c
            /\ pc' = "tcgetattr"
            /\ UNCHANGED exitStatus
    /\ UNCHANGED <<argv0, argc, argv, qdl_debug, prog_mbn, i, type, dir, found, path,
                   scans, tios>>

\* tty_open_open handing a failed open back to the caller
tty_open_open_soft ==
    /\ pc = "open"
    /\ \/ /\ log' = Append(log, Ev("open", 0, -1))
          /\ pc' = "check"
          /\ UNCHANGED <<fd, line, line0, exitStatus>>
       \/ \E c \in LineCfgs :
            /\ log' = Append(log, Ev("open", 0, 0))
            /\ fd' = "open"
            /\ line' = c
            /\ line0' = c
            /\ pc' = "tcgetattr"
            /\ UNCHANGED exitStatus
    /\ UNCHANGED <<argv0, argc, argv, qdl_debug, prog_mbn, i, type, dir, found, path,
                   scans, tios>>

\* tty_open, lines 181-184: open(path, O_RDWR | O_NOCTTY | O_EXCL)
tty_open_open ==
    /\ pc = "open"
    /\ \/ /\ log' = Append(log, Ev("open", 0, -1))
          /\ Exit(1)
          /\ UNCHANGED <<fd, line, line0>>
       \/ \E c \in LineCfgs :
            /\ log' = Append(log, Ev("open", 0, 0))
            /\ fd' = "open"
            /\ line' = c
            /\ line0' = c
            /\ pc' = "tcgetattr"
            /\ UNCHANGED exitStatus
    /\ UNCHANGED <<argv0, argc, argv, qdl_debug, prog_mbn, i, type, dir, found, path,
                   scans, tios>>

\* tty_open_tcgetattr reading the configuration after the fixed one is in place
tty_open_tcgetattr_late ==
    /\ pc = "tcgetattr"
    /\ \/ /\ log' = Append(log, Ev("tcgetattr", 0, -1))
          /\ Exit(1)
          /\ UNCHANGED tios
       \/ /\ log' = Append(log, Ev("tcgetattr", 0, 0))
          /\ tios' = FixedTios
          /\ pc' = "tcsetattr"
          /\ UNCHANGED exitStatus
    /\ UNCHANGED <<argv0, argc, argv, qdl_debug, prog_mbn, i, type, dir, found, path,
                   scans, fd, line, line0>>

\* tty_open, lines 186-188: tcgetattr(fd, old), old pointing at main's tios
tty_open_tcgetattr ==
    /\ pc = "tcgetattr"
    /\ \/ /\ log' = Append(log, Ev("tcgetattr", 0, -1))
          /\ Exit(1)
          /\ UNCHANGED tios
       \/ /\ log' = Append(log, Ev("tcgetattr", 0, 0))
          /\ tios' = line
          /\ pc' = "tcsetattr"
          /\ UNCHANGED exitStatus
    /\ UNCHANGED <<argv0, argc, argv, qdl_debug, prog_mbn, i, type, dir, found, path,
                   scans, fd, line, line0>>

\* tty_open_tcsetattr with the result of tcsetattr not looked at
tty_open_tcsetattr_unchecked ==
    /\ pc = "tcsetattr"
    /\ \E flushed \in {0, -1} :
         \/ /\ log' = log \o <<Ev("tcflush", 0, flushed), Ev("tcsetattr", 0, -1)>>
            /\ UNCHANGED line
         \/ /\ log' = log \o <<Ev("tcflush", 0, flushed), Ev("tcsetattr", 0, 0)>>
            /\ line' = FixedTios
    /\ pc' = "check"
    /\ UNCHANGED <<argv0, argc, argv, qdl_debug, prog_mbn, i, type, dir, found, path,
                   scans, fd, line0, tios, exitStatus>>

\* tty_open, lines 190-201: build the fixed configuration, tcflush (result
\* ignored), tcsetattr(fd, TCSANOW, &tios), return fd
tty_open_tcsetattr ==
    /\ pc = "tcsetattr"
    /\ \E flushed \in {0, -1} :
         \/ /\ log' = log \o <<Ev("tcflush", 0, flushed), Ev("tcsetattr", 0, -1)>>
            /\ Exit(1)
            /\ UNCHANGED line
         \/ /\ log' = log \o <<Ev("tcflush", 0, flushed), Ev("tcsetattr", 0, 0)>>
            /\ line' = FixedTios
            /\ pc' = "check"
            /\ UNCHANGED exitStatus
    /\ UNCHANGED <<argv0, argc, argv, qdl_debug, prog_mbn, i, type, dir, found, path,
                   scans, fd, line0, tios>>

(* ------------------------------------------------------- main, after open *)
\* the value tty_open returns: fd, as the latest open() of the device node set it
tty_open_fd ==
    LET k == CHOOSE k \in 1..Len(log) :
                 /\ log[k].op = "open"
                 /\ \A j \in (k + 1)..Len(log) : log[j].op # "open"
    IN  log[k].ret

\* main, lines 249-251: fd = tty_open(&tios); if (fd < 0) err(1, ...)
main_tty_open ==
    /\ pc = "check"
    /\ IF tty_open_fd < 0
       THEN /\ log' = Append(log, Ev("err_tty_open", 0, 1))
            /\ Exit(1)
       ELSE /\ pc' = "sahara"
            /\ UNCHANGED <<log, exitStatus>>
    /\ UNCHANGED <<argv0, argc, argv, qdl_debug, prog_mbn, i, type, dir, found, path,
                   scans, fd, line, line0, tios>>

\* what a protocol engine can leave the line configuration as
EngineLine == {line} \cup LineCfgs

\* main_sahara_run with a handshake failure ending the process on the spot
main_sahara_run_exit ==
    /\ pc = "sahara"
    /\ \E ret \in {0, -1}, c \in EngineLine :
         /\ log' = Append(log, Ev("sahara_run", 0, ret))
         /\ line' = c
         /\ IF ret < 0 THEN Exit(1) ELSE pc' = "firehose" /\ UNCHANGED exitStatus
    /\ UNCHANGED <<argv0, argc, argv, qdl_debug, prog_mbn, i, type, dir, found, path,
                   scans, fd, line0, tios>>

\* main_sahara_run with the handshake result not looked at
main_sahara_run_ignore ==
    /\ pc = "sahara"
    /\ \E ret \in {0, -1}, c \in EngineLine :
         /\ log' = Append(log, Ev("sahara_run", 0, ret))
         /\ line' = c
         /\ pc' = "firehose"
    /\ UNCHANGED <<argv0, argc, argv, qdl_debug, prog_mbn, i, type, dir, found, path,
                   scans, fd, line0, tios, exitStatus>>

\* main, lines 253-255: ret = sahara_run(fd, prog_mbn)
main_sahara_run ==
    /\ pc = "sahara"
    /\ \E ret \in {0, -1}, c \in EngineLine :
         /\ log' = Append(log, Ev("sahara_run", 0, ret))
         /\ line' = c
         /\ pc' = IF ret < 0 THEN "out" ELSE "firehose"
    /\ UNCHANGED <<argv0, argc, argv, qdl_debug, prog_mbn, i, type, dir, found, path,
                   scans, fd, line0, tios, exitStatus>>

\* main_firehose_run with a command-engine failure ending the process on the
\* spot
main_firehose_run_exit ==
    /\ pc = "firehose"
    /\ \E ret \in {0, -1}, c \in EngineLine :
         /\ log' = Append(log, Ev("firehose_run", 0, ret))
         /\ line' = c
         /\ IF ret < 0 THEN Exit(1) ELSE pc' = "out" /\ UNCHANGED exitStatus
    /\ UNCHANGED <<argv0, argc, argv, qdl_debug, prog_mbn, i, type, dir, found, path,
                   scans, fd, line0, tios>>

\* main, line 257: ret = firehose_run(fd)
main_firehose_run ==
    /\ pc = "firehose"
    /\ \E ret \in {0, -1}, c \in EngineLine :
         /\ log' = Append(log, Ev("firehose_run", 0, ret))
         /\ line' = c
         /\ pc' = "out"
    /\ UNCHANGED <<argv0, argc, argv, qdl_debug, prog_mbn, i, type, dir, found, path,
                   scans, fd, line0, tios, exitStatus>>

\* main_out leaving the handle open when the restoring tcsetattr fails
main_out_noclose ==
    /\ pc = "out"
    /\ \/ /\ log' = log \o <<Ev("restore", 0, 0), Ev("close", 0, 0)>>
          /\ line' = tios
          /\ fd' = "closed"
       \/ /\ log' = log \o <<Ev("restore", 0, -1), Ev("warn", 0, 0)>>
          /\ UNCHANGED <<line, fd>>
    /\ Exit(0)
    /\ UNCHANGED <<argv0, argc, argv, qdl_debug, prog_mbn, i, type, dir, found, path,
                   scans, line0, tios>>

\* main_out with the exit status taken from the restoring tcsetattr
main_out_status ==
    /\ pc = "out"
    /\ \/ /\ log' = log \o <<Ev("restore", 0, 0), Ev("close", 0, 0)>>
          /\ line' = tios
          /\ Exit(0)
       \/ /\ log' = log \o <<Ev("restore", 0, -1), Ev("warn", 0, 0), Ev("close", 0, 0)>>
          /\ UNCHANGED line
          /\ Exit(1)
    /\ fd' = "closed"
    /\ UNCHANGED <<argv0, argc, argv, qdl_debug, prog_mbn, i, type, dir, found, path,
                   scans, line0, tios>>

\* main, lines 259-265: tcsetattr(fd, TCSANOW, &tios), the warning on failure,
\* close(fd), return 0
main_out ==
    /\ pc = "out"
    /\ \/ /\ log' = log \o <<Ev("restore", 0, 0), Ev("close", 0, 0)>>
          /\ line' = tios
       \/ /\ log' = log \o <<Ev("restore", 0, -1), Ev("warn", 0, 0), Ev("close", 0, 0)>>
          /\ UNCHANGED line
    /\ fd' = "closed"
    /\ Exit(0)
    /\ UNCHANGED <<argv0, argc, argv, qdl_debug, prog_mbn, i, type, dir, found, path,
                   scans, line0, tios>>

(* --------------------------------------------------------- specifications *)
Next ==
    \/ main_args
    \/ main_detect_type
    \/ main_switch
    \/ tty_open_retry(FewListings)
    \/ tty_open_wait
    \/ tty_open_open
    \/ tty_open_tcgetattr
    \/ tty_open_tcsetattr
    \/ main_tty_open
    \/ main_sahara_run
    \/ main_firehose_run
    \/ main_out

Spec == Init /\ [][Next]_vars

\* The process is one sequential thread: every call returns (sleep(1)
\* included) and the statement after it is executed, so a step that can be
\* taken is taken.
SpecLive == Init /\ [][Next]_vars /\ WF_vars(Next)

\* The locator alone: the process at the entry of tty_open, after main has
\* classified and loaded <<"prog.mbn", "program.xml">>, scanning listings of
\* every shape.
InitLocate ==
    /\ argv0 = <<"prog.mbn", "program.xml">>
    /\ argv = argv0
    /\ argc = 3
    /\ qdl_debug = FALSE
    /\ prog_mbn = "prog.mbn"
    /\ i = 3
    /\ type = QDL_FILE_PROGRAM
    /\ pc = "retry"
    /\ dir = <<>>
    /\ found = 0
    /\ path = <<>>
    /\ scans = 0
    /\ fd = "none"
    /\ line = NoTios
    /\ line0 = NoTios
    /\ tios = NoTios
    /\ log = <<Ev("detect_type", 2, QDL_FILE_PROGRAM), Ev("program_load", 2, 0)>>
    /\ exitStatus = -1

NextLocate ==
    \/ tty_open_retry(AllListings)
    \/ tty_open_wait
    \/ tty_open_open

SpecLocate == InitLocate /\ [][NextLocate]_vars

(* ------------------------------------------------------------ properties *)
\* positions of the log holding a call of op, and of op with result ret
At(op) == {k \in 1..Len(log) : log[k].op = op}
AtRet(op, ret) == {k \in At(op) : log[k].ret = ret}
Count(op) == Cardinality(At(op))

\* the descriptor-file arguments: indices of argv after the firmware image
Descriptors == 2..(argc - 1)

Loaders == {"patch_load", "program_load"}

\* positions where /sys/class/tty or the device node is opened
HardwareTouched == At("opendir") \cup At("open")

\* file j was classified as a loadable kind and loaded before position k
LoadedBefore(j, k) ==
    /\ \E c \in 1..(k - 1) :
          /\ log[c].op = "detect_type" /\ log[c].file = j
          /\ log[c].ret \in {QDL_FILE_PATCH, QDL_FILE_PROGRAM}
    /\ \E l \in 1..(k - 1) :
          log[l].op \in Loaders /\ log[l].file = j /\ log[l].ret = 0

\* a descriptor file failed to classify or to load
DescriptorFailed ==
    \/ \E k \in At("detect_type") : log[k].ret < 0 \/ log[k].ret = QDL_FILE_UNKNOWN
    \/ \E k \in 1..Len(log) : log[k].op \in Loaders /\ log[k].ret < 0

\* tty_open returned a handle: the fixed configuration was installed
Acquired == AtRet("tcsetattr", 0) # {}

\* C1: the enumeration directory and the device node are opened only after
\* every descriptor file was classified and loaded successfully; a file that
\* fails to parse, has a foreign root element, or fails to load ends the run
\* with neither ever opened.
C1_NoHardwareBeforeAllLoaded ==
    /\ \A k \in HardwareTouched : \A j \in Descriptors : LoadedBefore(j, k)
    /\ DescriptorFailed => pc = "exited" /\ HardwareTouched = {}
    /\ (pc # "main" /\ \E j \in Descriptors :
            XmlRoot(argv[j]) \notin {"patches", "data", "contents"})
       => HardwareTouched = {}

C1_Witness ==
    /\ AtRet("open", 0) # {}
    /\ Cardinality(Descriptors) >= 2
    /\ At("patch_load") # {} /\ At("program_load") # {}

\* C2: when the run has ended, the saved configuration was re-applied and the
\* handle closed exactly once if tty_open had returned a handle, whatever the
\* engines returned, and never if it had not.
C2_RestoreExactlyOnce ==
    /\ Count("restore") <= 1 /\ Count("close") <= 1
    /\ pc = "exited" =>
         IF Acquired
         THEN Count("restore") = 1 /\ Count("close") = 1 /\ fd = "closed"
         ELSE Count("restore") = 0 /\ Count("close") = 0 /\ fd # "closed"

C2_Witness ==
    /\ pc = "exited"
    /\ Acquired
    /\ AtRet("firehose_run", -1) # {}
    /\ Count("restore") = 1

\* C3: once sahara_run has returned an error, firehose_run is never called,
\* and the run ends only with the configuration re-applied and the handle
\* closed after that error.
C3_HandshakeFailureSkipsExecute ==
    \A s \in AtRet("sahara_run", -1) :
        /\ At("firehose_run") = {}
        /\ pc = "exited" =>
             /\ \E r \in At("restore") : r > s
             /\ \E c \in At("close") : c > s
             /\ fd = "closed"

C3_Witness ==
    /\ pc = "exited"
    /\ AtRet("sahara_run", -1) # {}
    /\ fd = "closed"

\* the fatal conditions of a run
Fatal ==
    \/ At("usage") # {}
    \/ DescriptorFailed
    \/ At("errx_unsupported") # {}
    \/ AtRet("opendir", -1) # {}
    \/ AtRet("open", -1) # {}
    \/ AtRet("tcgetattr", -1) # {}
    \/ AtRet("tcsetattr", -1) # {}

\* C4: a run that has ended has status 0 exactly when it reached the
\* restoring tcsetattr, engine and restoration failures included, and status
\* 1 after every fatal condition.
C4_ExitStatus ==
    /\ exitStatus \in {-1, 0, 1}
    /\ pc = "exited" <=> exitStatus # -1
    /\ pc = "exited" =>
         /\ exitStatus = 0 <=> At("restore") # {}
         /\ exitStatus = 0 <=> Acquired
         /\ exitStatus = 1 <=> Fatal
    /\ Fatal => pc = "exited"

C4_Witness ==
    /\ pc = "exited"
    /\ exitStatus = 0
    /\ AtRet("restore", -1) # {}
    /\ AtRet("sahara_run", -1) # {}

\* the arguments with a leading --debug removed
Stripped(a) == IF Len(a) >= 1 /\ a[1] = "--debug" THEN Tail(a) ELSE a

\* C5: an invocation that, a leading --debug removed, holds fewer than two
\* arguments prints usage and exits 1, and does nothing else.
C5_UsageError ==
    (pc # "main" /\ Len(Stripped(argv0)) < 2) =>
        /\ pc = "exited"
        /\ exitStatus = 1
        /\ log = <<Ev("usage", 0, 1)>>
        /\ fd = "none" /\ scans = 0

C5_Witness ==
    /\ pc = "exited"
    /\ Len(argv0) = 2
    /\ argv0[1] = "--debug"
    /\ log = <<Ev("usage", 0, 1)>>

\* the scan accepts candidate de: the loop body, run on de alone, records it
Accepted(de) ==
    ScanEntry([found |-> -ENOENT, dev_name |-> <<>>, vid |-> <<>>, pid |-> <<>>],
              de).found = 0

Matching(d) == {k \in 1..Len(d) : Accepted(d[k])}

Last(S) == CHOOSE k \in S : \A j \in S : j <= k

\* a scan that opened the directory has just returned
Scanned == pc \in {"wait", "open"}

\* C6: a scan returns NotFound when it accepts no entry of the listing, and
\* otherwise the device node of the last accepted entry in readdir order,
\* whatever entries come before or after it.
C6_LastMatchWins ==
    Scanned =>
        IF Matching(dir) = {}
        THEN found = -ENOENT
        ELSE found = 0 /\ path = S_dev \o dir[Last(Matching(dir))].d_name

C6_Witness ==
    /\ pc = "open"
    /\ Cardinality(Matching(dir)) >= 2
    /\ path = S_dev \o dir[Len(dir)].d_name
    /\ path # S_dev \o dir[1].d_name

\* the token of an attribute file: its content up to the first newline
Token(file) == Take(file.data, strcspn(file.data))

ExactIds(de) ==
    /\ de.idVendor.exists /\ de.idVendor.readable
    /\ de.idProduct.exists /\ de.idProduct.readable
    /\ Token(de.idVendor) = S_05c6
    /\ Token(de.idProduct) = S_9008

\* C7: the candidate a scan returns has vendor and product tokens equal, as
\* whole strings, to "05c6" and "9008"; a longer token is rejected.
C7_ExactTokensOnly ==
    (Scanned /\ found = 0) =>
        \E k \in 1..Len(dir) : path = S_dev \o dir[k].d_name /\ ExactIds(dir[k])

\* the calls of detect_type and of the loaders, in order
FileEvents == SelectSeq(log, LAMBDA e : e.op \in {"detect_type"} \cup Loaders)

\* C8: the classifications and loads are, in order, detect_type then the
\* matching loader for argv[2], then for argv[3], and so on, each file once;
\* only the last of them can have failed.
C8_FilesInOrder ==
    LET fe == FileEvents IN
    \A n \in 1..Len(fe) :
        /\ fe[n].file \in Descriptors
        /\ IF n % 2 = 1
           THEN /\ fe[n].op = "detect_type"
                /\ fe[n].file = 2 + (n - 1) \div 2
                /\ fe[n].ret = detect_type(argv[fe[n].file])
                /\ n < Len(fe) => fe[n].ret \in {QDL_FILE_PATCH, QDL_FILE_PROGRAM}
           ELSE /\ fe[n].file = fe[n - 1].file
                /\ \/ fe[n - 1].ret = QDL_FILE_PATCH /\ fe[n].op = "patch_load"
                   \/ fe[n - 1].ret = QDL_FILE_PROGRAM /\ fe[n].op = "program_load"
                /\ n < Len(fe) => fe[n].ret = 0

C8_Witness ==
    /\ Len(FileEvents) = 4
    /\ FileEvents[2].op = "patch_load"
    /\ FileEvents[4].op = "program_load"
    /\ FileEvents[4].ret = -1
    /\ pc = "exited"

\* C9: a scan that opens the directory and accepts no entry leads to the wait
\* notice with the process running and no device node opened, and the wait
\* leads back to the next scan; Locating is left only by a match or by the
\* directory failing to open.
C9_LocatingPersists ==
    [][ /\ (pc = "retry" /\ log' = Append(log, Ev("opendir", 0, 0))
              /\ Matching(dir') = {})
           => /\ pc' = "wait"
              /\ exitStatus' = -1
              /\ fd' = "none"
        /\ pc = "wait"
           => /\ pc' = "retry"
              /\ log' = Append(log, Ev("notice", 0, 0))
              /\ exitStatus' = -1
              /\ fd' = "none"
        /\ (pc \in {"retry", "wait"} /\ pc' \notin {"retry", "wait"})
           => \/ log' = Append(log, Ev("opendir", 0, -1))
              \/ Matching(dir') # {}
      ]_vars

C9_Witness ==
    /\ pc = "wait"
    /\ Count("notice") >= 1
    /\ Len(dir) >= 1
    /\ Matching(dir) = {}
    /\ At("open") = {}
    /\ exitStatus = -1

\* C10: the saved configuration is the one the device had when it was opened,
\* read before the fixed one is installed, and after a successful restore the
\* device has that configuration again, whatever the engines did to it.
C10_RestoreRoundTrip ==
    /\ AtRet("tcgetattr", 0) # {} => tios = line0
    /\ \A s \in At("tcsetattr") : \E g \in AtRet("tcgetattr", 0) : g < s
    /\ pc \in {"sahara"} => line = FixedTios
    /\ AtRet("restore", 0) # {} => line = line0

C10_Witness ==
    /\ AtRet("restore", 0) # {}
    /\ At("firehose_run") # {}
    /\ line0 # FixedTios
    /\ line = line0

\* C11: a file whose root element is "contents" ends the run with the "not
\* yet supported" error, never with the "failed to detect file type" error of
\* an unknown or unparseable file; no loader is called for it and nothing is
\* opened.  The "not yet supported" error is given for no other file.
C11_ContentsNotSupported ==
    /\ \A k \in At("detect_type") :
         XmlRoot(argv[log[k].file]) = "contents" =>
            /\ log[k].ret = QDL_FILE_CONTENTS
            /\ pc \in {"switch", "exited"}
            /\ \A l \in 1..Len(log) : log[l].op \in Loaders => log[l].file # log[k].file
            /\ HardwareTouched = {}
            /\ At("errx_detect") = {}
            /\ pc = "exited" =>
                 /\ exitStatus = 1
                 /\ log[Len(log)] = Ev("errx_unsupported", log[k].file, 1)
    /\ \A u \in At("errx_unsupported") :
         /\ u > 1
         /\ log[u - 1].op = "detect_type"
         /\ XmlRoot(argv[log[u].file]) = "contents"
    /\ \A e \in At("errx_detect") :
         XmlRoot(argv[log[e].file]) \notin {"patches", "data", "contents"}

C11_Witness ==
    /\ pc = "exited"
    /\ At("errx_unsupported") # {}
    /\ Count("detect_type") = 2
    /\ AtRet("patch_load", 0) # {}

\* the protocol engines main has called
EngineCalls == At("sahara_run") \cup At("firehose_run")

\* C12: when the exclusive open, tcgetattr, tcflush or the installing
\* tcsetattr of tty_open fails, the process ends with status 1 and neither
\* engine is ever called.
C12_AcquireStepFailureFatal ==
    (\E op \in {"open", "tcgetattr", "tcflush", "tcsetattr"} : AtRet(op, -1) # {})
        => /\ EngineCalls = {}
           /\ pc = "exited"
           /\ exitStatus = 1

\* C13: when the restoring tcsetattr fails, a warning is given, the handle is
\* closed all the same, and the process ends with status 0, as it does when
\* the restoring tcsetattr succeeds.
C13_RestoreFailureIsWarning ==
    /\ \A r \in AtRet("restore", -1) :
         /\ r + 2 <= Len(log)
         /\ log[r + 1].op = "warn"
         /\ log[r + 2].op = "close"
         /\ fd = "closed"
         /\ pc = "exited"
         /\ exitStatus = 0
    /\ \A r \in AtRet("restore", 0) :
         /\ At("warn") = {}
         /\ fd = "closed"
         /\ pc = "exited"
         /\ exitStatus = 0

C13_Witness ==
    /\ pc = "exited"
    /\ AtRet("restore", -1) # {}
    /\ AtRet("firehose_run", 0) # {}
    /\ line # line0
    /\ fd = "closed"

\* C14: each engine is called at most once, firehose_run only after
\* sahara_run returned success, every engine call after tty_open returned the
\* handle and before the restore and close, and while an engine is about to
\* run the handle is open; the handshake starts on the fixed configuration.
C14_EnginesBetweenAcquireAndRestore ==
    /\ Count("sahara_run") <= 1
    /\ Count("firehose_run") <= 1
    /\ \A f \in At("firehose_run") : \E s \in AtRet("sahara_run", 0) : s < f
    /\ \A e \in EngineCalls :
         /\ \E a \in AtRet("tcsetattr", 0) : a < e
         /\ \A r \in At("restore") \cup At("close") : r > e
    /\ pc \in {"sahara", "firehose"} =>
         /\ fd = "open"
         /\ Acquired
         /\ At("restore") \cup At("close") = {}
    /\ pc = "sahara" => line = FixedTios /\ EngineCalls = {}
    /\ pc = "firehose" => AtRet("sahara_run", 0) # {} /\ At("firehose_run") = {}

C14_Witness ==
    /\ pc = "out"
    /\ Count("sahara_run") = 1
    /\ Count("firehose_run") = 1
    /\ fd = "open"

\* a step of tty_open that the code tests has failed
AcquireFailed ==
    \E op \in {"open", "tcgetattr", "tcsetattr"} : AtRet(op, -1) # {}

\* C15: when the exclusive open, tcgetattr, tcflush or the installing
\* tcsetattr of tty_open fails, the restore is never run and the process ends
\* with the device's line configuration as it was before tty_open touched it.
C15_FailedAcquireLeavesLine ==
    (\E op \in {"open", "tcgetattr", "tcflush", "tcsetattr"} : AtRet(op, -1) # {})
        => /\ At("restore") = {}
           /\ pc = "exited" => line = line0

\* the same for the three steps whose result tty_open tests
C15_TestedStepsLeaveLine ==
    AcquireFailed =>
        /\ pc = "exited"
        /\ line = line0
        /\ At("restore") = {}
        /\ At("close") = {}

\* C19: tty_open hands main only a non-negative handle, open, with the old
\* configuration saved in main's tios and the fixed one installed; main's
\* "failed to open QDL tty" branch is never taken, and a failing step of
\* tty_open ends the process at that step.
C19_TtyOpenNeverFails ==
    /\ pc = "check" =>
         /\ tty_open_fd >= 0
         /\ fd = "open"
         /\ tios = line0
         /\ line = FixedTios
    /\ At("err_tty_open") = {}
    /\ AcquireFailed =>
         /\ pc = "exited"
         /\ log[Len(log)].op \in {"open", "tcgetattr", "tcsetattr"}
         /\ log[Len(log)].ret = -1

C19_Witness ==
    /\ pc = "check"
    /\ line0 # FixedTios
    /\ Count("notice") >= 1

\* a candidate whose directory cannot be opened, or whose idVendor or
\* idProduct cannot be opened or read
Unreadable(de) ==
    /\ strncmp_eq(de.d_name, S_ttyUSB, PrefixLen)
    /\ \/ ~de.dirOk
       \/ readat(de.idVendor, <<>>, VidLen).ret < 0
       \/ readat(de.idProduct, <<>>, VidLen).ret < 0

Readable(de) == ~Unreadable(de)

\* C16: a scan over a listing holding unreadable candidates returns, with the
\* process still running, what the scan of the same listing without them
\* returns: the same found, and the same device node when one was found.
C16_UnreadableSkipped ==
    Scanned =>
        LET kept == find_qdl_tty(SelectSeq(dir, Readable), <<>>)
        IN  /\ exitStatus = -1
            /\ found = kept.found
            /\ found = 0 => path = kept.dev_name

C16_Witness ==
    /\ pc = "open"
    /\ Len(dir) = 2
    /\ Accepted(dir[1])
    /\ Unreadable(dir[2])
    /\ ~dir[2].idProduct.readable
    /\ path = S_dev \o dir[1].d_name

\* C17: a scan that cannot open /sys/class/tty ends the process with status 1
\* there and then, on the first scan or a later one; a scan that opens it and
\* accepts nothing returns -ENOENT, the notice is given and the next thing
\* done is another scan.
C17_OpendirFatalNotFoundRetried ==
    /\ \A k \in AtRet("opendir", -1) :
         /\ k = Len(log)
         /\ pc = "exited"
         /\ exitStatus = 1
    /\ pc = "wait" =>
         /\ exitStatus = -1
         /\ found = -ENOENT
         /\ log[Len(log)] = Ev("opendir", 0, 0)
    /\ \A n \in At("notice") :
         /\ log[n - 1] = Ev("opendir", 0, 0)
         /\ IF n = Len(log)
            THEN pc = "retry" /\ exitStatus = -1
            ELSE log[n + 1].op = "opendir"

C17_Witness ==
    /\ pc = "exited"
    /\ exitStatus = 1
    /\ Count("notice") >= 1
    /\ log[Len(log)] = Ev("opendir", 0, -1)

\* C20: the device node tty_open opens is the one of the last entry accepted
\* by the scan made just before, whatever earlier scans saw; no scan follows
\* an open, and a failed open ends the process with status 1.
C20_OpensLatestMatch ==
    /\ pc = "open" =>
         /\ found = 0
         /\ log[Len(log)] = Ev("opendir", 0, 0)
    /\ (pc = "open" \/ At("open") # {}) =>
         /\ Matching(dir) # {}
         /\ path = S_dev \o dir[Last(Matching(dir))].d_name
    /\ \A o \in At("open") :
         /\ log[o - 1] = Ev("opendir", 0, 0)
         /\ o = Len(log)
         /\ log[o].ret < 0 => pc = "exited" /\ exitStatus = 1
         /\ log[o].ret >= 0 => pc = "tcgetattr" /\ fd = "open"

C20_Witness ==
    /\ AtRet("open", 0) # {}
    /\ Count("notice") >= 1
    /\ Len(dir) = 2
    /\ Matching(dir) = {1}

\* no operating-system call on the tty or on /sys/class/tty has failed
OsOk ==
    \A op \in {"opendir", "open", "tcgetattr", "tcflush", "tcsetattr", "restore"} :
        AtRet(op, -1) = {}

\* the run has acquired the tty and ended with it restored and closed
RestoredAndClosed ==
    /\ pc = "exited"
    /\ exitStatus = 0
    /\ Acquired
    /\ AtRet("restore", 0) # {}
    /\ fd = "closed"
    /\ line = line0

\* C18: when no operating-system call ever fails and a scan that accepts
\* nothing is never the last one (the device turns up at some scan), a run
\* that has loaded all its files and reached the first scan goes on to
\* acquire the tty and ends with it restored and closed, whatever the engines
\* return.
C18_PipelineTerminates ==
    ([]OsOk /\ [](pc = "wait" => scans < MaxScans))
        => ((pc = "retry" /\ scans = 0) ~> RestoredAndClosed)

C18_Witness ==
    /\ RestoredAndClosed
    /\ OsOk
    /\ Count("notice") >= 1
    /\ Count("program_load") >= 1
    /\ AtRet("firehose_run", -1) # {}

====
